---- MODULE Spec2Model ----
(***************************************************************************)
(* The BlueZ peripheral of bluster: the Advertisement object               *)
(* (src/peripheral/bluez/advertisement.rs), its property cells, its        *)
(* is_advertising flag, the register/unregister handshake with the         *)
(* advertising manager, and the inbound calls served on its object path.   *)
(***************************************************************************)
EXTENDS Integers, Sequences, FiniteSets, TLC

(* ------------------------------ bounds -------------------------------- *)

\* Number of tasks that may call register()/unregister() concurrently.
MaxTasks == 2

Tasks == 1..MaxTasks

\* Inputs of add_name, add_uuids and add_service_data (service identifiers
\* and payloads) where the property store is studied (SpecStore).
Names == {"sensor", "beacon"}
UuidLists == {<<"180d">>, <<"180d", "180f">>}
ServiceUuids == {"180d", "180f"}
Payloads == {<<1, 2>>, <<3>>}

\* Inputs of the same calls where the handshake is studied (Spec): the one
\* advertisement a caller sets up before it registers.
AdvName == "sensor"
AdvUuids == <<"180d">>
AdvServiceUuid == "180d"
AdvPayload == <<1, 2>>

(* --------------------------- program constants ------------------------ *)

\* constants.rs is not part of the sources at hand: the three constants are
\* kept as opaque values named after themselves.
PATH_BASE == "PATH_BASE"
LE_ADVERTISEMENT_IFACE == "LE_ADVERTISEMENT_IFACE"
LE_ADVERTISING_MANAGER_IFACE == "LE_ADVERTISING_MANAGER_IFACE"
BLUEZ_SERVICE_NAME == "BLUEZ_SERVICE_NAME"
GATT_GATT_MANAGER_IFACE == "GATT_GATT_MANAGER_IFACE"

\* The adapter's object path, which Peripheral::new hands to the Gatt and to
\* the Advertisement (adapter.rs is not part of the sources at hand).
adapter == "adapter.object_path"

\* format!("{}/advertisement{:04}", PATH_BASE, 0): the slot index is the
\* literal 0, zero-padded to four digits.
Pad4(n) ==
    LET d(i) == <<"0","1","2","3","4","5","6","7","8","9">>[((n \div i) % 10) + 1]
    IN  d(1000) \o d(100) \o d(10) \o d(1)

object_path == PATH_BASE \o "/advertisement" \o Pad4(0)

(* ------------------------------ Option<T> ----------------------------- *)
\* Option<T> is a set of at most one element: None is {}, Some(x) is {x}.

None == {}
Some(x) == {x}

\* Option::unwrap_or_else(default)
unwrap_or_else(o, default) == IF o = None THEN default ELSE CHOOSE x \in o : TRUE

\* Mutant: the value is stored only into an empty cell (get_or_insert).
replace_keeps_first(o, x) == IF o = None THEN Some(x) ELSE o

\* Option::replace(x): the cell now holds Some(x), whatever it held.
replace(o, x) == Some(x)

\* Mutant: the cell is given a new value each time (insert(x)).
get_or_insert_fresh(o, x) == x

\* Option::get_or_insert(x): the held value, x being stored when None.
get_or_insert(o, x) == IF o = None THEN x ELSE CHOOSE y \in o : TRUE

(* ----------------------------- ServiceData ---------------------------- *)
\* ServiceData(HashMap<String, Vec<u8>>) is a function from its keys.

\* ServiceData::new()
ServiceData_new == [k \in {} |-> <<>>]

\* Mutant: an entry that exists is kept (entry(k).or_insert(v)).
insert_keeps_existing(m, k, v) ==
    [x \in (DOMAIN m) \cup {k} |-> IF x \in DOMAIN m THEN m[x] ELSE v]

\* HashMap::insert(k, v): one entry per key, the new value replacing the old.
insert(m, k, v) == [x \in (DOMAIN m) \cup {k} |-> IF x = k THEN v ELSE m[x]]

\* What HashMap::insert(k, v) returns: the value k had, if it had one.
insert_old(m, k) == IF k \in DOMAIN m THEN Some(m[k]) ELSE None

\* Append::append_by_ref: every entry is sent as a variant wrapping its byte
\* slice, keyed by its service identifier (signature a{sv}).
Variant(v) == [variant |-> "ay", value |-> v]
append_by_ref(sd) == [k \in DOMAIN sd |-> Variant(sd[k])]

(* ------------------------------- state -------------------------------- *)

VARIABLES
    is_advertising,  \* Arc<AtomicBool>
    name,            \* Arc<Mutex<Option<String>>>
    uuids,           \* Arc<Mutex<Option<Vec<String>>>>
    service_data,    \* Arc<Mutex<Option<ServiceData>>>
    task,            \* per task: the call it is suspended in, and its reply
    registered,      \* history: the manager accepted a registration, and no
                     \* unregister() was invoked nor Release served since
    written,         \* history: the most recent completed write per property
    event,           \* the latest step and what it sent or returned
    lock,            \* per Mutex: the task whose guard is alive, 0 when none is
    application      \* gatt::Application: its fields (the connection left out)

vars == <<is_advertising, name, uuids, service_data, task, registered, written,
          event, lock, application>>

\* The mutexes: the tree's and the three property cells'.
Locks == {"tree", "name", "uuids", "service_data"}

\* Mutex::lock() returns at once when no guard is alive, and blocks otherwise.
Free(l) == lock[l] = 0

store == <<name, uuids, service_data>>

Idle == [op |-> "idle", reply |-> "none"]

\* Application::new: the object path is the name of the path the factory
\* made for PATH_BASE.
Application_new == [object_path |-> PATH_BASE, adapter |-> adapter]

Init ==
    /\ is_advertising = FALSE
    /\ name = None
    /\ uuids = None
    /\ service_data = None
    /\ task = [t \in Tasks |-> Idle]
    /\ registered = FALSE
    /\ written = [name |-> None, uuids |-> None, service_data |-> ServiceData_new]
    /\ event = [kind |-> "new"]
    /\ lock = [l \in Locks |-> 0]
    /\ application = Application_new

(* -------------------------- property getters -------------------------- *)

Type_get == "peripheral"

\* Mutant: a placeholder name instead of the empty string.
LocalName_get_placeholder == unwrap_or_else(name, "unnamed")

LocalName_get == unwrap_or_else(name, "")
ServiceUUIDs_get == unwrap_or_else(uuids, <<>>)
ServiceData_get == unwrap_or_else(service_data, ServiceData_new)

\* The interface registered in the tree by Advertisement::new: one method and
\* four read-only properties.
iface_methods == {"Release"}

\* Mutant: the ServiceData property is not registered.
iface_properties_without_service_data == {"Type", "LocalName", "ServiceUUIDs"}

iface_properties == {"Type", "LocalName", "ServiceUUIDs", "ServiceData"}

\* The mutex a property getter locks (Type locks none).
CellOf(p) ==
    CASE p = "LocalName"    -> {"name"}
      [] p = "ServiceUUIDs" -> {"uuids"}
      [] p = "ServiceData"  -> {"service_data"}
      [] OTHER              -> {}

\* The value a property getter hands to the bus, as it is appended to a reply.
PropertyValue(p) ==
    CASE p = "Type"         -> Type_get
      [] p = "LocalName"    -> LocalName_get
      [] p = "ServiceUUIDs" -> ServiceUUIDs_get
      [] p = "ServiceData"  -> append_by_ref(ServiceData_get)

\* tree.insert(object_path, [iface_token, tree.object_manager()], ()): the
\* paths of the tree.
tree_paths == {object_path}

\* The object-manager snapshot: every path of the tree, every interface that
\* has properties, every property with the value its getter returns now.
ManagedObjects ==
    [p \in tree_paths |->
        [i \in {LE_ADVERTISEMENT_IFACE} |->
            [q \in iface_properties |-> PropertyValue(q)]]]

(* ------------------------- local property writes ---------------------- *)

\* Mutant: the name is refused while the flag is set.
add_name_unless_advertising(n) ==
    /\ ~is_advertising
    /\ Free("name")
    /\ name' = replace(name, n)
    /\ written' = [written EXCEPT !.name = Some(n)]
    /\ event' = [kind |-> "add_name", arg |-> n]
    /\ UNCHANGED <<lock, application, is_advertising, uuids, service_data, task, registered>>

add_name(n) ==
    /\ Free("name")
    /\ name' = replace(name, n)
    /\ written' = [written EXCEPT !.name = Some(n)]
    /\ event' = [kind |-> "add_name", arg |-> n]
    /\ UNCHANGED <<lock, application, is_advertising, uuids, service_data, task, registered>>

add_uuids(u) ==
    /\ Free("uuids")
    /\ uuids' = replace(uuids, u)
    /\ written' = [written EXCEPT !.uuids = Some(u)]
    /\ event' = [kind |-> "add_uuids", arg |-> u]
    /\ UNCHANGED <<lock, application, is_advertising, name, service_data, task, registered>>

add_service_data(service_uuid, data) ==
    /\ Free("service_data")
    /\ service_data' = Some(insert(get_or_insert(service_data, ServiceData_new), service_uuid, data))
    /\ written' = [written EXCEPT !.service_data = (service_uuid :> data) @@ @]
    /\ event' = [kind |-> "add_service_data", key |-> service_uuid, data |-> data,
                  old |-> insert_old(get_or_insert(service_data, ServiceData_new), service_uuid)]
    /\ UNCHANGED <<lock, application, is_advertising, name, uuids, task, registered>>

(* --------------------------- register/unregister ---------------------- *)

\* The request a method_call puts on the bus for the advertising manager.
Request(member, args) ==
    [kind |-> "request", iface |-> LE_ADVERTISING_MANAGER_IFACE,
     member |-> member, args |-> args]

\* What a call hands back to its caller.
Return(op, t, result) == [kind |-> "return", op |-> op, task |-> t, result |-> result]

\* Mutant: register() returns at once when the flag is already set.
register_call_unless_advertising(t) ==
    /\ ~is_advertising
    /\ task[t].op = "idle"
    /\ task' = [task EXCEPT ![t] = [op |-> "register", reply |-> "none"]]
    /\ event' = Request("RegisterAdvertisement", <<object_path, ServiceData_new>>)
    /\ UNCHANGED <<lock, application, is_advertising, store, registered, written>>

\* register(), up to its await: the request is sent, the task suspends.
register_call(t) ==
    /\ task[t].op = "idle"
    /\ task' = [task EXCEPT ![t] = [op |-> "register", reply |-> "none"]]
    /\ event' = Request("RegisterAdvertisement", <<object_path, ServiceData_new>>)
    /\ UNCHANGED <<lock, application, is_advertising, store, registered, written>>

\* Mutant: the store(true) placed before the `?`, so that it runs on an error too.
register_flag_sets_before_check(r, flag) == TRUE

\* Mutant: a failed call clears the flag.
register_flag_clears_on_error(r, flag) == r = "ok"

\* The flag after the awaited RegisterAdvertisement call resolved with r:
\* `?` returns early on an error, the store(true) follows a success.
register_flag(r, flag) == IF r = "ok" THEN TRUE ELSE flag

\* Mutant: a failed call empties the property cells.
register_resume_rolls_back(t) ==
    /\ task[t].op = "register"
    /\ task[t].reply # "none"
    /\ is_advertising' = register_flag(task[t].reply, is_advertising)
    /\ name' = IF task[t].reply = "err" THEN None ELSE name
    /\ uuids' = IF task[t].reply = "err" THEN None ELSE uuids
    /\ service_data' = IF task[t].reply = "err" THEN None ELSE service_data
    /\ task' = [task EXCEPT ![t] = Idle]
    /\ event' = Return("register", t, task[t].reply)
    /\ UNCHANGED <<lock, application, registered, written>>

\* register(), from its await on: the reply is there and the task resumes.
register_resume(t) ==
    /\ task[t].op = "register"
    /\ task[t].reply # "none"
    /\ is_advertising' = register_flag(task[t].reply, is_advertising)
    /\ task' = [task EXCEPT ![t] = Idle]
    /\ event' = Return("register", t, task[t].reply)
    /\ UNCHANGED <<lock, application, store, registered, written>>

\* Mutant: the store(false) left out before the await.
unregister_flag_keeps(flag) == flag

\* The flag as unregister() leaves it before it awaits: store(false).
unregister_flag(flag) == FALSE

\* Mutant: unregister() takes the tree's guard and keeps it over its await.
unregister_call_holds_tree(t) ==
    /\ task[t].op = "idle"
    /\ Free("tree")
    /\ task' = [task EXCEPT ![t] = [op |-> "unregister", reply |-> "none"]]
    /\ lock' = [lock EXCEPT !["tree"] = t]
    /\ is_advertising' = FALSE
    /\ registered' = FALSE
    /\ event' = Request("UnregisterAdvertisement", <<object_path>>)
    /\ UNCHANGED <<application, store, written>>

\* unregister(), up to its await: the request is sent, the flag is cleared,
\* the task suspends. (registered is history: an unregister() was invoked.)
unregister_call(t) ==
    /\ task[t].op = "idle"
    /\ task' = [task EXCEPT ![t] = [op |-> "unregister", reply |-> "none"]]
    /\ is_advertising' = unregister_flag(is_advertising)
    /\ registered' = FALSE
    /\ event' = Request("UnregisterAdvertisement", <<object_path>>)
    /\ UNCHANGED <<lock, application, store, written>>

\* unregister(), from its await on: the reply decides the result alone.
unregister_resume(t) ==
    /\ task[t].op = "unregister"
    /\ task[t].reply # "none"
    /\ task' = [task EXCEPT ![t] = Idle]
    /\ event' = Return("unregister", t, task[t].reply)
    /\ UNCHANGED <<lock, application, is_advertising, store, registered, written>>

\* The awaited call of task t resolves: the manager's reply r is there, Ok or
\* Err as the manager decides. (registered is history: the manager accepted
\* a RegisterAdvertisement.)
reply_arrives(t, r) ==
    /\ task[t].op \notin {"idle", "cancelled"}
    /\ task[t].reply = "none"
    /\ task' = [task EXCEPT ![t].reply = r]
    /\ registered' = IF task[t].op = "register" /\ r = "ok" THEN TRUE ELSE registered
    /\ event' = [kind |-> "reply", task |-> t, result |-> r]
    /\ UNCHANGED <<lock, application, is_advertising, store, written>>

(* ----------------------------- cancellation -------------------------- *)

\* Mutant: dropping an unregister() undoes its store(false).
cancel_rolls_back(t) ==
    /\ task[t].op \in {"register", "unregister"}
    /\ task' = [task EXCEPT ![t] =
                    IF task[t].reply = "none"
                    THEN [op |-> "cancelled", reply |-> "none", of |-> task[t].op]
                    ELSE Idle]
    /\ is_advertising' = IF task[t].op = "unregister" THEN TRUE ELSE is_advertising
    /\ event' = [kind |-> "cancel", task |-> t, op |-> task[t].op]
    /\ UNCHANGED <<lock, application, store, registered, written>>

\* The caller drops the future of a register() or unregister() that is
\* suspended at its await: the call never resumes. What it did before the
\* await stays done; a reply that is already there is dropped with it, one
\* that is not will find nobody waiting.
cancel(t) ==
    /\ task[t].op \in {"register", "unregister"}
    /\ task' = [task EXCEPT ![t] =
                    IF task[t].reply = "none"
                    THEN [op |-> "cancelled", reply |-> "none", of |-> task[t].op]
                    ELSE Idle]
    /\ event' = [kind |-> "cancel", task |-> t, op |-> task[t].op]
    /\ UNCHANGED <<lock, application, is_advertising, store, registered, written>>

\* The reply to a call whose future was dropped arrives. (registered is
\* history: the manager accepted a RegisterAdvertisement.)
late_reply(t, r) ==
    /\ task[t].op = "cancelled"
    /\ task' = [task EXCEPT ![t] = Idle]
    /\ registered' = IF task[t].of = "register" /\ r = "ok" THEN TRUE ELSE registered
    /\ event' = [kind |-> "late_reply", task |-> t, op |-> task[t].of, result |-> r]
    /\ UNCHANGED <<lock, application, is_advertising, store, written>>

(* -------------------------- gatt::Application ------------------------- *)

\* The message Application::register / unregister hands to method_call. (The
\* unwrap() of a send the connection refuses is a panic of the caller; the
\* connection is taken to accept the message.)
Application_message(member, args) ==
    [kind |-> "request", destination |-> BLUEZ_SERVICE_NAME,
     path |-> application.adapter, iface |-> GATT_GATT_MANAGER_IFACE,
     member |-> member, args |-> args]

\* Application::register(), up to its await.
Application_register_call(t) ==
    /\ task[t].op = "idle"
    /\ task' = [task EXCEPT ![t] = [op |-> "Application_register", reply |-> "none"]]
    /\ event' = Application_message("RegisterApplication",
                                    <<application.object_path, ServiceData_new>>)
    /\ UNCHANGED <<lock, application, is_advertising, store, registered, written>>

\* Mutant: the Application keeps an activity flag, as the Advertisement does.
Application_register_resume_keeps_flag(t) ==
    /\ task[t].op = "Application_register"
    /\ task[t].reply # "none"
    /\ task' = [task EXCEPT ![t] = Idle]
    /\ application' = [object_path |-> application.object_path,
                       adapter |-> application.adapter,
                       is_registered |-> task[t].reply = "ok"]
    /\ event' = Return("Application_register", t, task[t].reply)
    /\ UNCHANGED <<lock, is_advertising, store, registered, written>>

\* Application::register(), from its await on: Ok(reply message) or the error.
Application_register_resume(t) ==
    /\ task[t].op = "Application_register"
    /\ task[t].reply # "none"
    /\ task' = [task EXCEPT ![t] = Idle]
    /\ event' = Return("Application_register", t, task[t].reply)
    /\ UNCHANGED <<lock, application, is_advertising, store, registered, written>>

\* Application::unregister(), up to its await.
Application_unregister_call(t) ==
    /\ task[t].op = "idle"
    /\ task' = [task EXCEPT ![t] = [op |-> "Application_unregister", reply |-> "none"]]
    /\ event' = Application_message("UnregisterApplication", <<application.object_path>>)
    /\ UNCHANGED <<lock, application, is_advertising, store, registered, written>>

\* Mutant: a refused UnregisterApplication is sent once more.
Application_unregister_resume_retries(t) ==
    /\ task[t].op = "Application_unregister"
    /\ task[t].reply # "none"
    /\ IF task[t].reply = "err"
         THEN /\ task' = [task EXCEPT ![t].reply = "none"]
              /\ event' = Application_message("UnregisterApplication",
                                              <<application.object_path>>)
         ELSE /\ task' = [task EXCEPT ![t] = Idle]
              /\ event' = Return("Application_unregister", t, task[t].reply)
    /\ UNCHANGED <<lock, application, is_advertising, store, registered, written>>

\* Application::unregister(), from its await on: Ok(()) or the error.
Application_unregister_resume(t) ==
    /\ task[t].op = "Application_unregister"
    /\ task[t].reply # "none"
    /\ task' = [task EXCEPT ![t] = Idle]
    /\ event' = Return("Application_unregister", t, task[t].reply)
    /\ UNCHANGED <<lock, application, is_advertising, store, registered, written>>

(* ----------------------------- inbound calls -------------------------- *)

\* Mutant: a Release handler that only replies.
Release_flag_keeps(flag) == flag

\* The flag as the Release handler leaves it: store(false).
Release_flag(flag) == FALSE

\* Mutant: a Release for an advertisement that is not active is refused.
Release_only_when_advertising ==
    /\ Free("tree")
    /\ is_advertising
    /\ is_advertising' = FALSE
    /\ registered' = FALSE
    /\ event' = [kind |-> "Release", result |-> "ok", revoked |-> is_advertising]
    /\ UNCHANGED <<lock, application, store, task, written>>

\* Release, invoked by the manager: the flag is cleared, the reply is Ok(()).
\* The event keeps, as history, the flag the handler overwrote. (registered
\* is history: a Release was served.)
Release ==
    /\ Free("tree")
    /\ is_advertising' = Release_flag(is_advertising)
    /\ registered' = FALSE
    /\ event' = [kind |-> "Release", result |-> "ok", revoked |-> is_advertising]
    /\ UNCHANGED <<lock, application, store, task, written>>

\* A peer reads one property of the advertisement interface: the receive
\* callback locks the tree, the getter locks its cell.
Get(p) ==
    /\ Free("tree")
    /\ \A l \in CellOf(p) : Free(l)
    /\ event' = [kind |-> "Get", prop |-> p, value |-> PropertyValue(p)]
    /\ UNCHANGED <<lock, application, is_advertising, store, task, registered, written>>

\* A peer enumerates the tree through the object-manager interface.
GetManagedObjects ==
    /\ \A l \in Locks : Free(l)
    /\ event' = [kind |-> "GetManagedObjects", objects |-> ManagedObjects]
    /\ UNCHANGED <<lock, application, is_advertising, store, task, registered, written>>

\* Advertisement::is_advertising(): a load of the flag.
is_advertising_load ==
    /\ event' = [kind |-> "is_advertising", value |-> is_advertising]
    /\ UNCHANGED <<lock, application, is_advertising, store, task, registered, written>>

(* ------------------------------ Peripheral ---------------------------- *)

\* The arguments of a start_advertising call: a name, a list of service
\* identifiers and a map of payloads (identifiers in their string form, the
\* form to_string gives them before they are stored).
StartArgs ==
    { [name |-> "sensor", uuids |-> <<"180d">>, data |-> ("180d" :> <<1, 2>>)],
      [name |-> "beacon", uuids |-> <<"180d", "180f">>,
       data |-> ("180d" :> <<3>> @@ "180f" :> <<4>>)] }

\* The service identifiers the payloads of StartArgs are keyed by.
StartKeys == UNION {DOMAIN d.data : d \in StartArgs}

\* Whether the start_advertising call recorded in c has written a cell yet.
\* (History, like the field replaced below.)
WroteName(c) == "args" \in DOMAIN c
WroteUuids(c) == "args" \in DOMAIN c /\ c.pc # "add_uuids"
WroteData(c, k) == "args" \in DOMAIN c /\ k \in DOMAIN c.args.data /\ k \notin c.todo

\* The calls in flight after another caller wrote the name, the list, or the
\* payload of k: a call that wrote the same cell before has been replaced there.
name_replaced(t) ==
    [x \in Tasks |-> IF x # t /\ WroteName(task[x])
                     THEN [task[x] EXCEPT !.replaced.name = TRUE] ELSE task[x]]
uuids_replaced(t) ==
    [x \in Tasks |-> IF x # t /\ WroteUuids(task[x])
                     THEN [task[x] EXCEPT !.replaced.uuids = TRUE] ELSE task[x]]
data_replaced(t, k) ==
    [x \in Tasks |-> IF x # t /\ WroteData(task[x], k)
                     THEN [task[x] EXCEPT !.replaced.data = @ \cup {k}] ELSE task[x]]

\* start_advertising, entered: self.advertisement.add_name(name). The call
\* has sent nothing yet (reply "unsent").
start_advertising_add_name(t, d) ==
    /\ task[t].op = "idle"
    /\ Free("name")
    /\ name' = replace(name, d.name)
    /\ written' = [written EXCEPT !.name = Some(d.name)]
    /\ task' = [name_replaced(t) EXCEPT ![t] =
                    [op |-> "start_advertising", reply |-> "unsent", pc |-> "add_uuids",
                     args |-> d, todo |-> DOMAIN d.data,
                     replaced |-> [name |-> FALSE, uuids |-> FALSE, data |-> {}]]]
    /\ event' = [kind |-> "add_name", arg |-> d.name, task |-> t]
    /\ UNCHANGED <<lock, application, is_advertising, uuids, service_data, registered>>

\* Mutant: the guard of the list's cell is bound in start_advertising and
\* lives until the call returns.
start_advertising_add_uuids_keeps_guard(t) ==
    /\ task[t].op = "start_advertising"
    /\ task[t].pc = "add_uuids"
    /\ Free("uuids")
    /\ uuids' = replace(uuids, task[t].args.uuids)
    /\ written' = [written EXCEPT !.uuids = Some(task[t].args.uuids)]
    /\ task' = [uuids_replaced(t) EXCEPT ![t].pc = "add_service_data"]
    /\ lock' = [lock EXCEPT !["uuids"] = t]
    /\ event' = [kind |-> "add_uuids", arg |-> task[t].args.uuids, task |-> t]
    /\ UNCHANGED <<application, is_advertising, name, service_data, registered>>

\* self.advertisement.add_uuids(the identifiers, each in its string form)
start_advertising_add_uuids(t) ==
    /\ task[t].op = "start_advertising"
    /\ task[t].pc = "add_uuids"
    /\ Free("uuids")
    /\ uuids' = replace(uuids, task[t].args.uuids)
    /\ written' = [written EXCEPT !.uuids = Some(task[t].args.uuids)]
    /\ task' = [uuids_replaced(t) EXCEPT ![t].pc = "add_service_data"]
    /\ event' = [kind |-> "add_uuids", arg |-> task[t].args.uuids, task |-> t]
    /\ UNCHANGED <<lock, application, is_advertising, name, service_data, registered>>

\* One turn of `for (k, v) in data.into_iter()`: add_service_data(k, v), the
\* entries coming in the order the map yields them.
start_advertising_add_service_data(t, k) ==
    /\ task[t].op = "start_advertising"
    /\ task[t].pc = "add_service_data"
    /\ k \in task[t].todo
    /\ Free("service_data")
    /\ service_data' = Some(insert(get_or_insert(service_data, ServiceData_new),
                                   k, task[t].args.data[k]))
    /\ written' = [written EXCEPT !.service_data = (k :> task[t].args.data[k]) @@ @]
    /\ task' = [data_replaced(t, k) EXCEPT ![t].todo = @ \ {k}]
    /\ event' = [kind |-> "add_service_data", key |-> k, data |-> task[t].args.data[k],
                  old |-> insert_old(get_or_insert(service_data, ServiceData_new), k),
                  task |-> t]
    /\ UNCHANGED <<lock, application, is_advertising, name, uuids, registered>>

\* Mutant: register() is called before the loop over the payloads.
start_advertising_register_before_data(t) ==
    /\ task[t].op = "start_advertising"
    /\ task[t].pc = "add_service_data"
    /\ task' = [task EXCEPT ![t].op = "register", ![t].reply = "none", ![t].pc = "await"]
    /\ event' = Request("RegisterAdvertisement", <<object_path, ServiceData_new>>)
    /\ UNCHANGED <<lock, application, is_advertising, store, registered, written>>

\* The loop is over: self.advertisement.register().await, up to the await.
\* From here on the call is a register() (register_resume, reply_arrives),
\* whose result start_advertising hands back as it is.
start_advertising_register(t) ==
    /\ task[t].op = "start_advertising"
    /\ task[t].pc = "add_service_data"
    /\ task[t].todo = {}
    /\ task' = [task EXCEPT ![t].op = "register", ![t].reply = "none", ![t].pc = "await"]
    /\ event' = Request("RegisterAdvertisement", <<object_path, ServiceData_new>>)
    /\ UNCHANGED <<lock, application, is_advertising, store, registered, written>>

\* stop_advertising: self.advertisement.unregister().await, up to the await.
stop_advertising(t) == unregister_call(t)

(* ---------------------------- specification --------------------------- *)

\* The handshake: every operation of the Advertisement, the concurrent
\* register()/unregister() tasks, the manager's replies and its Release.
Next ==
    \/ add_name(AdvName)
    \/ add_uuids(AdvUuids)
    \/ add_service_data(AdvServiceUuid, AdvPayload)
    \/ \E t \in Tasks : register_call(t)
    \/ \E t \in Tasks : register_resume(t)
    \/ \E t \in Tasks : unregister_call(t)
    \/ \E t \in Tasks : unregister_resume(t)
    \/ \E t \in Tasks, r \in {"ok", "err"} : reply_arrives(t, r)
    \/ \E t \in Tasks : cancel(t)
    \/ \E t \in Tasks, r \in {"ok", "err"} : late_reply(t, r)
    \/ Release
    \/ \E p \in iface_properties : Get(p)
    \/ GetManagedObjects
    \/ is_advertising_load

Spec == Init /\ [][Next]_vars

\* The property store: the writes with all their inputs, and the reads a bus
\* peer makes of them.
NextStore ==
    \/ \E n \in Names : add_name(n)
    \/ \E u \in UuidLists : add_uuids(u)
    \/ \E k \in ServiceUuids, d \in Payloads : add_service_data(k, d)
    \/ \E p \in iface_properties : Get(p)
    \/ GetManagedObjects

SpecStore == Init /\ [][NextStore]_vars

\* The handshake as the executor runs it: a task whose awaited reply is
\* there is woken and polled, so its resumption, once possible, happens. No
\* call is cancelled here, and nothing is assumed of the manager: a reply may
\* never come; one property read stands for the inbound reads. (A resumption always changes task, so fairness is stated over
\* task alone.)
NextLive ==
    \/ \E t \in Tasks : register_call(t)
    \/ \E t \in Tasks : register_resume(t)
    \/ \E t \in Tasks : unregister_call(t)
    \/ \E t \in Tasks : unregister_resume(t)
    \/ \E t \in Tasks, r \in {"ok", "err"} : reply_arrives(t, r)
    \/ Release
    \/ Get("LocalName")

SpecLive ==
    /\ Init
    /\ [][NextLive]_vars
    /\ \A t \in Tasks : WF_task(register_resume(t)) /\ WF_task(unregister_resume(t))

\* The Peripheral: start_advertising and stop_advertising from every task,
\* and what the manager does meanwhile (of its reads, the one of the payloads).
NextPeripheral ==
    \/ \E t \in Tasks, d \in StartArgs : start_advertising_add_name(t, d)
    \/ \E t \in Tasks : start_advertising_add_uuids(t)
    \/ \E t \in Tasks, k \in StartKeys : start_advertising_add_service_data(t, k)
    \/ \E t \in Tasks : start_advertising_register(t)
    \/ \E t \in Tasks : register_resume(t)
    \/ \E t \in Tasks : stop_advertising(t)
    \/ \E t \in Tasks : unregister_resume(t)
    \/ \E t \in Tasks, r \in {"ok", "err"} : reply_arrives(t, r)
    \/ Release
    \/ Get("ServiceData")

SpecPeripheral == Init /\ [][NextPeripheral]_vars

\* The two handshakes side by side: the Advertisement's and the
\* Application's calls, their replies, the Release and the local writes.
NextApp ==
    \/ \E t \in Tasks : Application_register_call(t)
    \/ \E t \in Tasks : Application_register_resume(t)
    \/ \E t \in Tasks : Application_unregister_call(t)
    \/ \E t \in Tasks : Application_unregister_resume(t)
    \/ \E t \in Tasks : register_call(t)
    \/ \E t \in Tasks : register_resume(t)
    \/ \E t \in Tasks : unregister_call(t)
    \/ \E t \in Tasks : unregister_resume(t)
    \/ \E t \in Tasks, r \in {"ok", "err"} : reply_arrives(t, r)
    \/ Release
    \/ add_name(AdvName)
    \/ add_uuids(AdvUuids)
    \/ add_service_data(AdvServiceUuid, AdvPayload)

SpecApp == Init /\ [][NextApp]_vars

(* ------------------------------- claims ------------------------------- *)

\* The step that led to event e: a call returning result r from op, a request
\* for member being sent.
IsReturn(e, op, r) == e.kind = "return" /\ e.op = op /\ e.result = r
IsRequest(e, member) == e.kind = "request" /\ e.member = member

\* C1: the flag is false at construction and changes value only through a
\* register() whose remote call succeeded (to true), an invocation of
\* unregister() (to false) and an inbound Release (to false); every other
\* step leaves it as it is.
C1_FlagTransitions ==
    /\ is_advertising = FALSE
    /\ [][is_advertising' # is_advertising =>
            \/ IsReturn(event', "register", "ok") /\ is_advertising'
            \/ IsRequest(event', "UnregisterAdvertisement") /\ ~is_advertising'
            \/ event'.kind = "Release" /\ ~is_advertising']_vars

\* C1 witness: an unregister() has just returned its reply while the flag is
\* true (set by a register() that succeeded meanwhile): the reply left it alone.
C1_Witness ==
    /\ is_advertising
    /\ event.kind = "return" /\ event.op = "unregister"

\* C2: once a register() has returned success is_advertising() reads true,
\* and once the manager's Release has been served it reads false, no
\* unregister() being needed for that.
C2_RegisterThenRelease ==
    /\ IsReturn(event, "register", "ok") => is_advertising
    /\ event.kind = "Release" => ~is_advertising
    /\ event.kind = "is_advertising" => event.value = is_advertising

\* C2 witness: a Release has just cleared a flag that was true, and no task
\* is inside unregister().
C2_Witness ==
    /\ event.kind = "Release" /\ event.revoked
    /\ ~is_advertising
    /\ \A t \in Tasks : task[t].op # "unregister"

\* C3: unregister() clears the flag in the step that sends its request and
\* suspends; its return, with whatever reply, leaves the flag alone and hands
\* that reply to the caller; and a false flag turns true only by a register()
\* returning success.
C3_OptimisticClear ==
    [][/\ IsRequest(event', "UnregisterAdvertisement") => ~is_advertising'
       /\ (event'.kind = "return" /\ event'.op = "unregister") =>
            /\ is_advertising' = is_advertising
            /\ event'.result = task[event'.task].reply
       /\ (~is_advertising /\ is_advertising') =>
            IsReturn(event', "register", "ok")]_vars

\* C3 witness: an unregister() has just returned the remote error and the
\* flag reads false.
C3_Witness == IsReturn(event, "unregister", "err") /\ ~is_advertising

\* C4 as stated: after a register() that returned the remote error,
\* is_advertising() reads false, whatever the flag was before.
C4_FailedRegisterReadsFalse == IsReturn(event, "register", "err") => ~is_advertising

\* C4 amended: a register() whose remote call failed returns that error and
\* does not write the flag: it reads after the return what it read before.
C4_FailedRegisterKeepsFlag ==
    [][IsReturn(event', "register", "err") =>
            /\ task[event'.task].op = "register"
            /\ task[event'.task].reply = "err"
            /\ is_advertising' = is_advertising]_vars

\* C4 witness: a register() has just returned the remote error while the flag
\* is true.
C4_Witness == IsReturn(event, "register", "err") /\ is_advertising

\* C5: is_advertising() reading true implies that the manager holds the
\* advertisement: it accepted a registration, and since then no unregister()
\* was invoked and no Release was delivered.
C5_NeverStaleTrue == is_advertising => registered

\* What the most recent completed writes make a read of property p return:
\* the value written, or the empty value of its type when none was.
Expected(p) ==
    CASE p = "Type"         -> "peripheral"
      [] p = "LocalName"    -> IF written.name = None THEN ""
                               ELSE CHOOSE x \in written.name : TRUE
      [] p = "ServiceUUIDs" -> IF written.uuids = None THEN <<>>
                               ELSE CHOOSE x \in written.uuids : TRUE
      [] p = "ServiceData"  -> [k \in DOMAIN written.service_data |->
                                   [variant |-> "ay", value |-> written.service_data[k]]]

\* Whether property p has been written.
Written(p) ==
    CASE p = "Type"         -> FALSE
      [] p = "LocalName"    -> written.name # None
      [] p = "ServiceUUIDs" -> written.uuids # None
      [] p = "ServiceData"  -> DOMAIN written.service_data # {}

\* C6: a read of LocalName, ServiceUUIDs or ServiceData that follows writes
\* of that property returns the value of the most recent one: the name and
\* the list last written, and for every service identifier ever written the
\* payload last written for it, and nothing else.
C6_ReadsSeeLatestWrite ==
    (event.kind = "Get" /\ Written(event.prop)) => event.value = Expected(event.prop)

\* C6 witness: a read of ServiceData returns two entries with different
\* payloads, after the name and the list have been written too.
C6_Witness ==
    /\ event.kind = "Get" /\ event.prop = "ServiceData"
    /\ DOMAIN event.value = ServiceUuids
    /\ event.value["180d"] # event.value["180f"]
    /\ written.name # None /\ written.uuids # None

\* C7: a read of a property that has not been written returns the empty
\* value of its type (and a value, never an error), and Type always reads
\* "peripheral".
C7_DefaultsWhenAbsent ==
    event.kind = "Get" =>
        /\ "value" \in DOMAIN event
        /\ event.prop = "Type" => event.value = "peripheral"
        /\ (event.prop = "LocalName" /\ written.name = None) => event.value = ""
        /\ (event.prop = "ServiceUUIDs" /\ written.uuids = None) => event.value = <<>>
        /\ (event.prop = "ServiceData" /\ DOMAIN written.service_data = {}) =>
                DOMAIN event.value = {}

\* C7 witness: LocalName is read while no name has been written, the other
\* two properties having been written.
C7_Witness ==
    /\ event.kind = "Get" /\ event.prop = "LocalName"
    /\ written.name = None
    /\ written.uuids # None /\ DOMAIN written.service_data # {}

\* C8: add_service_data(k, d) leaves a mapping that holds d for k, holds one
\* entry more than before exactly when k was not in it, and holds for every
\* other identifier what it held; when it already held d for k, nothing
\* changes.
C8_ServiceDataOverwrite ==
    [][event'.kind = "add_service_data" =>
        LET m  == unwrap_or_else(service_data, ServiceData_new)
            m2 == unwrap_or_else(service_data', ServiceData_new)
            k  == event'.key
            d  == event'.data
        IN  /\ service_data' # None
            /\ DOMAIN m2 = (DOMAIN m) \cup {k}
            /\ Cardinality(DOMAIN m2) = Cardinality((DOMAIN m) \ {k}) + 1
            /\ m2[k] = d
            /\ \A j \in (DOMAIN m) \ {k} : m2[j] = m[j]
            /\ (k \in DOMAIN m /\ m[k] = d) => service_data' = service_data]_vars

\* C8 witness: an add_service_data has just replaced another payload of its
\* identifier, in a mapping of two entries.
C8_Witness ==
    /\ event.kind = "add_service_data"
    /\ event.old # None /\ event.old # Some(event.data)
    /\ Cardinality(DOMAIN ServiceData_get) = 2
    /\ ServiceData_get[event.key] = event.data

\* C9: an object-manager enumeration returns one object, at
\* PATH_BASE/advertisement0000, with the LE-advertisement interface and its
\* four properties, each with the value the most recent writes give it (the
\* empty value when there was none).
C9_Enumeration ==
    event.kind = "GetManagedObjects" =>
        /\ DOMAIN event.objects = {PATH_BASE \o "/advertisement0000"}
        /\ \A o \in DOMAIN event.objects :
            /\ DOMAIN event.objects[o] = {LE_ADVERTISEMENT_IFACE}
            /\ LET props == event.objects[o][LE_ADVERTISEMENT_IFACE]
               IN  /\ DOMAIN props = {"Type", "LocalName", "ServiceUUIDs", "ServiceData"}
                   /\ \A q \in DOMAIN props : props[q] = Expected(q)

\* C9 witness: the enumeration made after add_name("sensor"),
\* add_uuids(["180d"]) and add_service_data("180d", [1, 2]).
C9_Witness ==
    /\ event.kind = "GetManagedObjects"
    /\ written = [name |-> {"sensor"}, uuids |-> {<<"180d">>},
                  service_data |-> ("180d" :> <<1, 2>>)]
    /\ event.objects[object_path][LE_ADVERTISEMENT_IFACE]["LocalName"] = "sensor"

\* C10: add_name, add_uuids and add_service_data are enabled in every state,
\* and a step of one of them changes its own cell only: the flag, the other
\* two cells and the calls in flight stay as they are, and no request is sent.
C10_LocalMutations ==
    /\ [](/\ ENABLED add_name(AdvName)
          /\ ENABLED add_uuids(AdvUuids)
          /\ ENABLED add_service_data(AdvServiceUuid, AdvPayload))
    /\ [][/\ event'.kind = "add_name" =>
                UNCHANGED <<is_advertising, uuids, service_data, task>>
          /\ event'.kind = "add_uuids" =>
                UNCHANGED <<is_advertising, name, service_data, task>>
          /\ event'.kind = "add_service_data" =>
                UNCHANGED <<is_advertising, name, uuids, task>>]_vars

\* C10 witness: a service-data entry has just been added while the flag is
\* set and a call is awaiting its reply.
C10_Witness ==
    /\ event.kind = "add_service_data"
    /\ is_advertising
    /\ \E t \in Tasks : task[t].op # "idle" /\ task[t].reply = "none"

\* The calls that send a request and suspend until its reply, and the member
\* each of them calls.
RemoteOps == {"register", "unregister", "Application_register", "Application_unregister"}
MemberOf(op) ==
    CASE op = "register"               -> "RegisterAdvertisement"
      [] op = "unregister"             -> "UnregisterAdvertisement"
      [] op = "Application_register"   -> "RegisterApplication"
      [] op = "Application_unregister" -> "UnregisterApplication"

\* Whether event e is a step of Application::register or unregister.
IsApplicationStep(e) ==
    \/ e.kind = "request" /\ e.member \in {"RegisterApplication", "UnregisterApplication"}
    \/ e.kind = "return" /\ e.op \in {"Application_register", "Application_unregister"}

\* C11: a task that is in no call can always invoke Application::register and
\* Application::unregister, whatever was registered before, and no step of
\* the two, with whatever reply, changes the Advertisement's flag, the
\* property cells or the fields of the Application.
C11_ApplicationKeepsNoFlag ==
    /\ [](\A t \in Tasks : task[t].op = "idle" =>
            /\ ENABLED Application_register_call(t)
            /\ ENABLED Application_unregister_call(t))
    /\ [][IsApplicationStep(event') =>
            UNCHANGED <<is_advertising, name, uuids, service_data, application>>]_vars

\* C11 witness: an Application::register has just returned success while
\* another one is in flight and the Advertisement's flag is set.
C11_Witness ==
    /\ IsReturn(event, "Application_register", "ok")
    /\ \E t \in Tasks : task[t].op = "Application_register"
    /\ is_advertising
    /\ application = Application_new

C13_CancelledReadsFalse ==
    (event.kind = "cancel" /\ event.op = "unregister") => ~is_advertising

\* C13 amended: the cancellation of an unregister() and the later arrival of
\* its reply write nothing (flag and cells stay as they are), the flag having
\* been cleared when the unregister() was invoked; after that it turns true
\* only by a register() returning success.
C13_CancelKeepsClear ==
    [][/\ IsRequest(event', "UnregisterAdvertisement") => ~is_advertising'
       /\ event'.kind = "cancel" =>
            /\ task[event'.task].op = event'.op
            /\ UNCHANGED <<is_advertising, store>>
       /\ event'.kind = "late_reply" =>
            /\ task[event'.task].op = "cancelled"
            /\ task'[event'.task] = Idle
            /\ UNCHANGED <<is_advertising, store>>
       /\ (~is_advertising /\ is_advertising') =>
            IsReturn(event', "register", "ok")]_vars

\* C13 witness: the reply of a cancelled unregister() has just arrived, and
\* the flag reads false.
C13_Witness ==
    /\ event.kind = "late_reply" /\ event.op = "unregister"
    /\ ~is_advertising

\* C15: a task that is in no call can invoke register() and unregister() in
\* every state, whatever the flag and the calls in flight are; the invocation
\* sends the request, and what the call returns is the manager's reply.
C15_CallsNotGuarded ==
    /\ [](\A t \in Tasks : task[t].op = "idle" =>
            /\ ENABLED register_call(t)
            /\ ENABLED unregister_call(t))
    /\ [][\A t \in Tasks :
            /\ (task[t].op = "idle" /\ task'[t].op \in {"register", "unregister"}) =>
                    IsRequest(event', MemberOf(task'[t].op))
            /\ (event'.kind = "return" /\ event'.task = t) =>
                    event'.result = task[t].reply]_vars

\* C15 witness: a RegisterAdvertisement has just been sent while the flag is
\* set and another register() is in flight.
C15_Witness ==
    /\ IsRequest(event, "RegisterAdvertisement")
    /\ is_advertising
    /\ \A t \in Tasks : task[t].op = "register"

\* C16: Release can be served in every state; it replies success, leaves the
\* flag false (whatever it was), the cells and the calls in flight as they
\* are, and sends nothing; a second Release right after one changes nothing.
C16_Release ==
    /\ [](ENABLED Release)
    /\ [][event'.kind = "Release" =>
            /\ event'.result = "ok"
            /\ ~is_advertising'
            /\ UNCHANGED <<name, uuids, service_data, task>>
            /\ event.kind = "Release" =>
                UNCHANGED <<is_advertising, registered, written, lock, application>>]_vars

\* C16 witness: a Release has just been served while the flag was already
\* false, with a call in flight.
C16_Witness ==
    /\ event.kind = "Release" /\ ~event.revoked
    /\ ~is_advertising
    /\ \E t \in Tasks : task[t].op = "register"

\* C17: while a register() or unregister() awaits its reply, a Release and a
\* read of every property can be served; and a call whose reply has arrived
\* returns.
C17_DispatchNotBlocked ==
    /\ []((\E t \in Tasks : task[t].op \in {"register", "unregister"}
                            /\ task[t].reply = "none") =>
            /\ ENABLED Release
            /\ \A p \in iface_properties : ENABLED Get(p))
    /\ \A t \in Tasks :
            (task[t].op \in {"register", "unregister"} /\ task[t].reply # "none")
                ~> (event.kind = "return" /\ event.task = t)

\* C17 witness: a property has just been read while an unregister() and a
\* register() await their replies.
C17_Witness ==
    /\ event.kind = "Get"
    /\ \E t \in Tasks : task[t].op = "unregister" /\ task[t].reply = "none"
    /\ \E t \in Tasks : task[t].op = "register" /\ task[t].reply = "none"

\* A task inside start_advertising, before its request is sent.
Starting(t) == task[t].op = "start_advertising"

\* A task awaiting the register() its start_advertising ended with.
StartAwaiting(t) == task[t].op = "register" /\ "args" \in DOMAIN task[t]

\* A task suspended at the await of register() or unregister().
Suspended(t) == task[t].op \in {"register", "unregister"}

\* C14: no guard outlives the read or the write it was taken for: in every
\* state all four mutexes are free, so a task suspended awaiting the reply
\* of register() or unregister() holds none of them.
C14_NoLockAcrossAwait ==
    /\ \A l \in Locks : Free(l)
    /\ \A t \in Tasks : Suspended(t) => \A l \in Locks : lock[l] # t

\* C14 witness: a task has just written the list of identifiers while
\* another is suspended in unregister() and its own register() is yet to come.
C14_Witness ==
    /\ event.kind = "add_uuids"
    /\ \E t \in Tasks : task[t].op = "unregister" /\ task[t].reply = "none"
    /\ \E t \in Tasks : Starting(t) /\ task[t].pc = "add_service_data"

\* The keys of the payload cell.
Keys(sd) == IF sd = None THEN {} ELSE DOMAIN unwrap_or_else(sd, ServiceData_new)

\* C18: no step takes a written name or list of identifiers back to absent,
\* and no step removes a key from the payloads.
C18_StoreOnlyGrows ==
    [][ /\ name # None => name' # None
        /\ uuids # None => uuids' # None
        /\ service_data # None => service_data' # None
        /\ Keys(service_data) \subseteq Keys(service_data') ]_vars

\* C18 witness: a start_advertising of "sensor" has returned with the flag
\* clear (an unregister() or a Release came in between), and the payload of
\* "180f", which only an earlier start_advertising of "beacon" wrote, is
\* still there beside its own.
C18_Witness ==
    /\ event.kind = "return" /\ event.op = "register"
    /\ ~is_advertising
    /\ name = Some("sensor")
    /\ Keys(service_data) = {"180d", "180f"}
    /\ unwrap_or_else(service_data, ServiceData_new)["180d"] = <<1, 2>>
    /\ unwrap_or_else(service_data, ServiceData_new)["180f"] = <<4>>

\* C19: once start_advertising has sent RegisterAdvertisement, every write of
\* the call is done, and as long as the call awaits, each property reads as
\* the value passed to the call, unless another caller wrote that cell after
\* the call did; a read hands out what the property is.
C19_WritesBeforeRegister ==
    /\ event.kind = "Get" => event.value = PropertyValue(event.prop)
    /\ \A t \in Tasks : StartAwaiting(t) =>
        /\ task[t].todo = {}
        /\ ~task[t].replaced.name =>
                PropertyValue("LocalName") = task[t].args.name
        /\ ~task[t].replaced.uuids =>
                PropertyValue("ServiceUUIDs") = task[t].args.uuids
        /\ \A k \in DOMAIN task[t].args.data \ task[t].replaced.data :
                /\ k \in DOMAIN PropertyValue("ServiceData")
                /\ PropertyValue("ServiceData")[k] = Variant(task[t].args.data[k])

\* C19 witness: the manager reads the payloads while a start_advertising of
\* "beacon" awaits its reply, and gets the payloads of that call; another
\* call awaits too, whose name has been replaced since.
C19_Witness ==
    /\ event.kind = "Get"
    /\ \E t \in Tasks :
        /\ StartAwaiting(t) /\ task[t].reply = "none"
        /\ task[t].args.name = "beacon"
        /\ event.value = append_by_ref(task[t].args.data)
    /\ \E u \in Tasks : StartAwaiting(u) /\ task[u].replaced.name

\* A step of task t's start_advertising before its await: the call is
\* entered, or moves on.
StartStep(t) ==
    \/ task[t].op = "idle" /\ task'[t].op = "start_advertising"
    \/ /\ task[t].op = "start_advertising"
       /\ \/ task'[t].op # "start_advertising"
          \/ task'[t].pc # task[t].pc
          \/ task'[t].todo # task[t].todo

\* C20: a start_advertising whose RegisterAdvertisement failed returns that
\* error and leaves the cells and the flag as they are: what it wrote, and
\* nobody replaced, is still there; and no step before its await writes the
\* flag.
C20_NoRollback ==
    [][\A t \in Tasks :
        /\ StartStep(t) => is_advertising' = is_advertising
        /\ (StartAwaiting(t) /\ task[t].reply = "err" /\ task'[t].op = "idle") =>
            /\ event' = Return("register", t, "err")
            /\ is_advertising' = is_advertising
            /\ store' = store
            /\ ~task[t].replaced.name => name' = Some(task[t].args.name)
            /\ ~task[t].replaced.uuids => uuids' = Some(task[t].args.uuids)
            /\ \A k \in DOMAIN task[t].args.data \ task[t].replaced.data :
                    /\ k \in Keys(service_data')
                    /\ unwrap_or_else(service_data', ServiceData_new)[k]
                            = task[t].args.data[k] ]_vars

\* C20 witness: a start_advertising of "beacon" has returned the error while
\* the flag is set, and everything it wrote is in the cells.
C20_Witness ==
    /\ event.kind = "return" /\ event.op = "register" /\ event.result = "err"
    /\ is_advertising
    /\ name = Some("beacon")
    /\ uuids = Some(<<"180d", "180f">>)
    /\ service_data = Some("180d" :> <<3>> @@ "180f" :> <<4>>)

====
